---- MODULE Spec2Model ----
(***************************************************************************)
(* Model of doci_bot.py: the per-user session map and the handlers that    *)
(* use it (handle_category, handle_query, handle_result_selection), the    *)
(* ranking of raw hits in handle_query, the link traversal of              *)
(* assemble_full_content and the splitting loop of send_long_message.      *)
(*                                                                         *)
(* A handler is a coroutine: the code between two awaits runs atomically,  *)
(* so each action below is one such stretch of a handler.                  *)
(***************************************************************************)
EXTENDS Integers, Sequences, FiniteSets, Bags, TLC

VARIABLES
    user_sessions,  \* user id -> session dict (line 24)
    cat_task,       \* user id -> the user's handle_category coroutine
    qry_task,       \* user id -> the user's handle_query coroutine
    sel_task,       \* user id -> the user's handle_result_selection coroutine
    buttons,        \* user id -> the result buttons sent to the user so far
    started,        \* number of handler invocations started
    is_e5_model,    \* processor.db_metadata["is_e5_model"], set at startup
    rank,           \* one run of the sort-and-cut of handle_query
    asm,            \* one run of assemble_full_content
    seg             \* one run of send_long_message

vars ==
    <<user_sessions, cat_task, qry_task, sel_task, buttons, started,
      is_e5_model, rank, asm, seg>>

----------------------------------------------------------------------------
(* Generic helpers *)

Min(a, b) == IF a < b THEN a ELSE b

Max(a, b) == IF a > b THEN a ELSE b

Range(s) == {s[i] : i \in 1..Len(s)}

Front(s) == SubSeq(s, 1, Len(s) - 1)

Last(s) == s[Len(s)]

\* All sequences over S of length at most n.
SeqsUpTo(S, n) == UNION {[1..k -> S] : k \in 0..n}

----------------------------------------------------------------------------
(* Bounds of the model *)

\* Longest list of raw hits a search returns in the ranking runs.
MaxRaw == 4

\* Number of documents stored in the indexes of one traversal run.
MaxDocs == 2

\* Number of blocks an input text of the splitting runs is made of.
MaxBlocks == 3

\* Number of handler invocations started in one run of the session machine.
MaxOps == 4

----------------------------------------------------------------------------
(* Chunk ids.  A chunk id is a string; it is modelled as the sequence of its
   digits so that the order used by sort() is the order of strings:
   "1" < "10" < "2". *)

ChunkIds == {<<1>>, <<1, 0>>, <<2>>}

RECURSIVE StrLess(_, _)
\* Python's str.__lt__: lexicographic, a proper prefix is smaller.
StrLess(a, b) ==
    IF b = <<>> THEN FALSE
    ELSE IF a = <<>> THEN TRUE
    ELSE IF a[1] # b[1] THEN a[1] < b[1]
    ELSE StrLess(Tail(a), Tail(b))

----------------------------------------------------------------------------
(* Ranking of raw hits: handle_query, lines 161-169 *)

\* res["score"], in percent.
Scores == {40, 85, 91}

\* The chunk ids the hits of a ranking run carry.
HitIds == {<<1>>, <<2>>}

\* A raw hit as returned by multi_async_search: res["metadata"]["chunk_id"],
\* res["score"], res["content"].  The content names the index the copy of the
\* chunk came from.
Hits == [chunk_id : HitIds, score : Scores, content : {"from_1", "from_2"}]

\* The slice [:3] of line 166.
TopN == 3

RECURSIVE InsertByScoreAsc(_, _)
InsertByScoreAsc(sorted, h) ==
    IF sorted = <<>> THEN <<h>>
    ELSE IF Last(sorted).score <= h.score THEN Append(sorted, h)
    ELSE Append(InsertByScoreAsc(Front(sorted), h), Last(sorted))

RECURSIVE InsertByScoreDesc(_, _)
\* Place h behind every element whose score is not lower: sorted() is stable,
\* and with reverse=True equal keys keep their original order.
InsertByScoreDesc(sorted, h) ==
    IF sorted = <<>> THEN <<h>>
    ELSE IF Last(sorted).score >= h.score THEN Append(sorted, h)
    ELSE Append(InsertByScoreDesc(Front(sorted), h), Last(sorted))

RECURSIVE SortedByScoreDesc(_)
\* sorted(raw_results, key=lambda x: x["score"], reverse=True)
SortedByScoreDesc(raw) ==
    IF raw = <<>> THEN <<>>
    ELSE InsertByScoreDesc(SortedByScoreDesc(Front(raw)), Last(raw))

\* sorted(...)[:3]
sorted_results(raw) ==
    SubSeq(SortedByScoreDesc(raw), 1, Min(TopN, Len(raw)))

----------------------------------------------------------------------------
(* The session machine *)

Users == {"u1", "u2"}

\* Directories under FAISS_ROOT the callback data can name; "ghost" is a
\* category whose path does not exist.
Categories == {"docs", "empty", "ghost"}

\* os.path.exists(category_path), line 91
CategoryExists(c) == c # "ghost"

\* faiss_paths, line 100: "docs" holds two index files, "empty" none.
faiss_paths(c) == IF c = "docs" THEN <<1, 2>> ELSE <<>>

\* processor.faiss_loader: success, {"success": False}, or an exception.
LoadOutcomes == {"ok", "fail", "raise"}

\* The value of user_sessions.get(user_id) for a user without a session.
NoSession ==
    [exists |-> FALSE, faiss_indexes |-> <<>>, query_prefix |-> "",
     has_last_results |-> FALSE, last_results |-> <<>>]

\* The dict of lines 83-87.
InitialSession ==
    [exists |-> TRUE, faiss_indexes |-> <<>>, query_prefix |-> "",
     has_last_results |-> TRUE, last_results |-> <<>>]

\* The dict of lines 123-131: it has no "last_results" key.
LoadedSession(indexes, e5) ==
    [exists |-> TRUE, faiss_indexes |-> indexes,
     query_prefix |-> IF e5 THEN "query: " ELSE "",
     has_last_results |-> FALSE, last_results |-> <<>>]

IdleCat ==
    [pc |-> "idle", category |-> "none", faiss_indexes |-> <<>>, idx |-> 0,
     reply |-> "none"]

IdleQry ==
    [pc |-> "idle", indexes |-> <<>>, query |-> "", reply |-> "none"]

\* The chunk stored in the index loaded from path i, and the hit a search
\* over that index returns for it.
IndexHit(i) ==
    [chunk_id |-> IF i = 1 THEN <<1>> ELSE <<2>>,
     score |-> IF i = 1 THEN 85 ELSE 91,
     content |-> IF i = 1 THEN "from_1" ELSE "from_2"]

\* What multi_async_search can return for a list of indexes: no hit, one hit
\* of one of the indexes, or a hit of every index in index order.
RawResults(indexes) ==
    {<<>>} \cup {<<IndexHit(i)>> : i \in Range(indexes)}
           \cup {[k \in 1..Len(indexes) |-> IndexHit(indexes[k])]}

\* line 146 is the only test handle_query makes before it searches.
AcceptsQueries(u) == user_sessions[u].exists

(* handle_category, lines 79-96: the session is replaced by a fresh dict
   before the category path is looked at. *)
handle_category_start(u, c) ==
    /\ cat_task[u].pc \in {"idle", "done"}
    /\ started < MaxOps
    /\ started' = started + 1
    /\ user_sessions' = [user_sessions EXCEPT ![u] = InitialSession]
    /\ cat_task' = [cat_task EXCEPT ![u] =
          IF ~CategoryExists(c)
          THEN [pc |-> "done", category |-> c, faiss_indexes |-> <<>>,
                idx |-> 0, reply |-> "category_not_found"]
          ELSE [pc |-> "loading", category |-> c, faiss_indexes |-> <<>>,
                idx |-> 0, reply |-> "progress"]]
    /\ UNCHANGED <<qry_task, sel_task, buttons, is_e5_model, rank, asm, seg>>

(* handle_category, lines 107-120: one turn of the loading loop. *)
handle_category_load(u) ==
    /\ cat_task[u].pc = "loading"
    /\ cat_task[u].idx < Len(faiss_paths(cat_task[u].category))
    /\ \E outcome \in LoadOutcomes :
          LET t == cat_task[u]
              db == faiss_paths(t.category)[t.idx + 1]
          IN  cat_task' = [cat_task EXCEPT ![u] =
                 IF outcome = "raise"
                 THEN [t EXCEPT !.pc = "done", !.reply = "load_error"]
                 ELSE [t EXCEPT
                         !.faiss_indexes =
                             IF outcome = "ok" THEN Append(@, db) ELSE @,
                         !.idx = @ + 1]]
    /\ UNCHANGED <<user_sessions, qry_task, sel_task, buttons, started,
                   is_e5_model, rank, asm, seg>>

(* handle_category, lines 122-135: the loop is over; the session is replaced
   by the loaded one and the user is told the base is ready. *)
handle_category_finish(u) ==
    /\ cat_task[u].pc = "loading"
    /\ cat_task[u].idx = Len(faiss_paths(cat_task[u].category))
    /\ user_sessions' = [user_sessions EXCEPT ![u] =
          LoadedSession(cat_task[u].faiss_indexes, is_e5_model)]
    /\ cat_task' = [cat_task EXCEPT ![u] =
          [@ EXCEPT !.pc = "done", !.reply = "ready"]]
    /\ UNCHANGED <<qry_task, sel_task, buttons, started, is_e5_model, rank,
                   asm, seg>>

(* handle_query, lines 145-159: up to the await of the search. *)
handle_query_start(u) ==
    /\ qry_task[u].pc \in {"idle", "done"}
    /\ started < MaxOps
    /\ started' = started + 1
    /\ qry_task' = [qry_task EXCEPT ![u] =
          IF ~AcceptsQueries(u)
          THEN [pc |-> "done", indexes |-> <<>>, query |-> "",
                reply |-> "no_session"]
          ELSE [pc |-> "searching",
                indexes |-> user_sessions[u].faiss_indexes,
                query |-> user_sessions[u].query_prefix,
                reply |-> "none"]]
    /\ UNCHANGED <<user_sessions, cat_task, sel_task, buttons, is_e5_model,
                   rank, asm, seg>>

\* The buttons of lines 178-183: callback data show_result_{idx}, each shown
\* with the hit it stands for.
ResultButtons(results) == {<<k - 1, results[k]>> : k \in 1..Len(results)}

\* A handle_query that stores the ranked hits in every session of the
\* mapping instead of the sender's.
handle_query_results_every_session(u) ==
    /\ qry_task[u].pc = "searching"
    /\ \E raw_results \in RawResults(qry_task[u].indexes) :
          /\ user_sessions' = [b \in Users |->
                 [user_sessions[b] EXCEPT
                     !.has_last_results = TRUE,
                     !.last_results = sorted_results(raw_results)]]
          /\ buttons' = [buttons EXCEPT ![u] =
                 @ \cup ResultButtons(sorted_results(raw_results))]
    /\ qry_task' = [qry_task EXCEPT ![u] =
          [@ EXCEPT !.pc = "done", !.reply = "results"]]
    /\ UNCHANGED <<cat_task, sel_task, started, is_e5_model, rank, asm, seg>>

(* handle_query, lines 161-189: the search has returned. *)
handle_query_results(u) ==
    /\ qry_task[u].pc = "searching"
    /\ \E raw_results \in RawResults(qry_task[u].indexes) :
          /\ user_sessions' = [user_sessions EXCEPT ![u] =
                 [@ EXCEPT !.has_last_results = TRUE,
                           !.last_results = sorted_results(raw_results)]]
          /\ buttons' = [buttons EXCEPT ![u] =
                 @ \cup ResultButtons(sorted_results(raw_results))]
    /\ qry_task' = [qry_task EXCEPT ![u] =
          [@ EXCEPT !.pc = "done", !.reply = "results"]]
    /\ UNCHANGED <<cat_task, sel_task, started, is_e5_model, rank, asm, seg>>

(* handle_query, lines 191-194: the search raised. *)
handle_query_error(u) ==
    /\ qry_task[u].pc = "searching"
    /\ qry_task' = [qry_task EXCEPT ![u] =
          [@ EXCEPT !.pc = "done", !.reply = "query_error"]]
    /\ UNCHANGED <<user_sessions, cat_task, sel_task, buttons, started,
                   is_e5_model, rank, asm, seg>>

----------------------------------------------------------------------------
(* One run of the ranking of handle_query on an arbitrary list of raw hits *)

IdleRank == [pc |-> "idle", raw_results |-> <<>>, last_results |-> <<>>]

\* handle_query, lines 161-169, on the list the search returned.
rank_results ==
    /\ rank.pc = "searched"
    /\ rank' = [rank EXCEPT !.pc = "done",
                            !.last_results = sorted_results(rank.raw_results)]
    /\ UNCHANGED <<user_sessions, cat_task, qry_task, sel_task, buttons,
                   started, is_e5_model, asm, seg>>

----------------------------------------------------------------------------
(* assemble_full_content, lines 237-275 *)

\* The lengths of a chunk's metadata["linked"] list.
LinkLens == 0..2

LinkLists == UNION {[1..k -> ChunkIds] : k \in LinkLens}

\* A document of a docstore, before it is given its content.
DocShapes == [chunk_id : ChunkIds, linked : LinkLists]

\* The document at place k of the pool: its content tells the copies of a
\* chunk apart.
DocAt(pool, k) ==
    [chunk_id |-> pool[k].chunk_id, linked |-> pool[k].linked,
     page_content |-> k]

\* The two indexes of a session: the first holds the first `cut` documents
\* of the pool, the second the rest.
IndexesOf(pool, cut) ==
    << [k \in 1..cut |-> DocAt(pool, k)],
       [k \in 1..(Len(pool) - cut) |-> DocAt(pool, cut + k)] >>

NoChunk == [found |-> FALSE, chunk_id |-> <<>>, linked |-> <<>>,
            page_content |-> 0]

Found(doc) ==
    [found |-> TRUE, chunk_id |-> doc.chunk_id, linked |-> doc.linked,
     page_content |-> doc.page_content]

\* next((doc for doc in index.docstore._dict.values()
\*       if doc.metadata["chunk_id"] == chunk_id), None), lines 251-255
FirstInIndex(index, chunk_id) ==
    LET at == {k \in 1..Len(index) : index[k].chunk_id = chunk_id}
    IN  IF at = {} THEN NoChunk
        ELSE Found(index[CHOOSE k \in at : \A m \in at : k <= m])

RECURSIVE FindChunkFrom(_, _, _)
FindChunkFrom(faiss_indexes, chunk_id, i) ==
    IF i > Len(faiss_indexes) THEN NoChunk
    ELSE LET chunk == FirstInIndex(faiss_indexes[i], chunk_id)
         IN  IF chunk.found THEN chunk
             ELSE FindChunkFrom(faiss_indexes, chunk_id, i + 1)

RECURSIVE FindChunkBackFrom(_, _, _)
FindChunkBackFrom(faiss_indexes, chunk_id, i) ==
    IF i < 1 THEN NoChunk
    ELSE LET chunk == FirstInIndex(faiss_indexes[i], chunk_id)
         IN  IF chunk.found THEN chunk
             ELSE FindChunkBackFrom(faiss_indexes, chunk_id, i - 1)

FindChunkInLastIndex(faiss_indexes, chunk_id) ==
    FindChunkBackFrom(faiss_indexes, chunk_id, Len(faiss_indexes))

\* The for loop of lines 249-257: the first index that holds the id wins.
FindChunk(faiss_indexes, chunk_id) == FindChunkFrom(faiss_indexes, chunk_id, 1)

\* An upper limit on the turns of the while loop that the model follows: one
\* for the seed and one for every link of every document.
MaxTurns == 1 + MaxDocs * Cardinality(LinkLens)

RECURSIVE TraverseNoVisitedCheck(_, _, _, _, _)
TraverseNoVisitedCheck(faiss_indexes, queue, visited, chunks, turns) ==
    IF queue = <<>> THEN [terminated |-> TRUE, chunks |-> chunks]
    ELSE IF turns = 0 THEN [terminated |-> FALSE, chunks |-> chunks]
    ELSE LET chunk_id == Head(queue)
             chunk == FindChunk(faiss_indexes, chunk_id)
         IN  IF chunk.found
             THEN TraverseNoVisitedCheck(
                      faiss_indexes,
                      Tail(queue) \o SelectSeq(chunk.linked,
                          LAMBDA linked_id :
                              linked_id \notin visited \cup {chunk_id}),
                      visited \cup {chunk_id},
                      Append(chunks, chunk),
                      turns - 1)
             ELSE TraverseNoVisitedCheck(faiss_indexes, Tail(queue), visited,
                                         chunks, turns - 1)

RECURSIVE TraverseStopAtBrokenLink(_, _, _, _, _)
TraverseStopAtBrokenLink(faiss_indexes, queue, visited, chunks, turns) ==
    IF queue = <<>> THEN [terminated |-> TRUE, chunks |-> chunks]
    ELSE IF turns = 0 THEN [terminated |-> FALSE, chunks |-> chunks]
    ELSE LET chunk_id == Head(queue)
             chunk == FindChunk(faiss_indexes, chunk_id)
         IN  IF chunk_id \in visited
             THEN TraverseStopAtBrokenLink(faiss_indexes, Tail(queue),
                                           visited, chunks, turns - 1)
             ELSE IF chunk.found
             THEN TraverseStopAtBrokenLink(
                      faiss_indexes,
                      Tail(queue) \o SelectSeq(chunk.linked,
                          LAMBDA linked_id :
                              linked_id \notin visited \cup {chunk_id}),
                      visited \cup {chunk_id},
                      Append(chunks, chunk),
                      turns - 1)
             ELSE [terminated |-> TRUE, chunks |-> chunks]

RECURSIVE Traverse(_, _, _, _, _)
\* The while loop of lines 243-266.  `turns` counts the iterations left to
\* follow; a run that uses them all up is reported as not terminated.
Traverse(faiss_indexes, queue, visited, chunks, turns) ==
    IF queue = <<>> THEN [terminated |-> TRUE, chunks |-> chunks]
    ELSE IF turns = 0 THEN [terminated |-> FALSE, chunks |-> chunks]
    ELSE LET chunk_id == Head(queue)
             chunk == FindChunk(faiss_indexes, chunk_id)
         IN  IF chunk_id \in visited
             THEN Traverse(faiss_indexes, Tail(queue), visited, chunks,
                           turns - 1)
             ELSE IF chunk.found
             THEN Traverse(
                      faiss_indexes,
                      \* visited.add(chunk_id) runs before queue.extend(...)
                      Tail(queue) \o SelectSeq(chunk.linked,
                          LAMBDA linked_id :
                              linked_id \notin visited \cup {chunk_id}),
                      visited \cup {chunk_id},
                      Append(chunks, chunk),
                      turns - 1)
             ELSE Traverse(faiss_indexes, Tail(queue), visited, chunks,
                           turns - 1)

InsertAtEnd(sorted, chunk) == Append(sorted, chunk)

RECURSIVE InsertByChunkId(_, _)
\* list.sort is stable: a chunk goes behind every chunk whose id is not
\* greater.
InsertByChunkId(sorted, chunk) ==
    IF sorted = <<>> THEN <<chunk>>
    ELSE IF ~StrLess(chunk.chunk_id, Last(sorted).chunk_id)
         THEN Append(sorted, chunk)
    ELSE Append(InsertByChunkId(Front(sorted), chunk), Last(sorted))

RECURSIVE SortedByChunkId(_)
\* chunks.sort(key=lambda x: x.metadata["chunk_id"]), line 269
SortedByChunkId(chunks) ==
    IF chunks = <<>> THEN <<>>
    ELSE InsertByChunkId(SortedByChunkId(Front(chunks)), Last(chunks))

\* "\n\n".join(...), lines 272-275: the contents in list order.
JoinedContent(chunks) == [k \in 1..Len(chunks) |-> chunks[k].page_content]

IdleAsm ==
    [pc |-> "idle", faiss_indexes |-> <<>>, main_chunk |-> <<>>,
     terminated |-> FALSE, chunks |-> <<>>, full_content |-> <<>>]

\* One call of assemble_full_content: it has no await, so the whole call is
\* one step.
assemble_full_content ==
    /\ asm.pc = "called"
    /\ LET run == Traverse(asm.faiss_indexes, <<asm.main_chunk>>, {}, <<>>,
                           MaxTurns)
           chunks == SortedByChunkId(run.chunks)
       IN  asm' = [asm EXCEPT !.pc = "done",
                              !.terminated = run.terminated,
                              !.chunks = chunks,
                              !.full_content = JoinedContent(chunks)]
    /\ UNCHANGED <<user_sessions, cat_task, qry_task, sel_task, buttons,
                   started, is_e5_model, rank, seg>>

----------------------------------------------------------------------------
(* handle_result_selection, lines 196-235 *)

NoHit == [chunk_id |-> <<>>, score |-> 0, content |-> "none"]

IdleSel ==
    [pc |-> "idle", result_idx |-> 0, pressed |-> NoHit, passed |-> FALSE,
     n_results |-> 0, opened |-> NoHit, assembled |-> FALSE,
     full_content |-> <<>>, reply |-> "none"]

\* The docstore of the index loaded from path i: index 1 holds chunk "1",
\* which links to chunk "2"; index 2 holds chunk "2".
Docstore(i) ==
    << [chunk_id |-> IndexHit(i).chunk_id,
        linked |-> IF i = 1 THEN << <<2>> >> ELSE <<>>,
        page_content |-> i] >>

\* What a callback show_result_{idx} can carry: the index of a button the
\* user was sent, with the hit the button shows, or an index no button
\* carries (the data is a string the client sends).
Presses(u) ==
    {[result_idx |-> b[1], hit |-> b[2]] : b \in buttons[u]}
        \cup {[result_idx |-> -1, hit |-> NoHit]}

\* results[result_idx], line 213: a negative index counts from the end.
Subscript(results, result_idx) ==
    IF result_idx >= 0 THEN results[result_idx + 1]
    ELSE results[Len(results) + result_idx + 1]

(* handle_result_selection, lines 199-229: the checks, the assembly (which
   has no await) and the header message. *)
handle_result_selection(u) ==
    /\ sel_task[u].pc \in {"idle", "done"}
    /\ started < MaxOps
    /\ started' = started + 1
    /\ \E press \in Presses(u) :
       LET session == user_sessions[u]
           result_idx == press.result_idx
           results == session.last_results
           rejected(reply, passed, n) ==
               [pc |-> "done", result_idx |-> result_idx,
                pressed |-> press.hit, passed |-> passed, n_results |-> n,
                opened |-> NoHit, assembled |-> FALSE,
                full_content |-> <<>>, reply |-> reply]
       IN  sel_task' = [sel_task EXCEPT ![u] =
              IF ~session.exists \/ ~session.has_last_results
              THEN rejected("stale", FALSE, 0)
              ELSE IF result_idx >= Len(results)
              THEN rejected("not_found", TRUE, Len(results))
              ELSE IF Len(results) + result_idx + 1 < 1
              THEN \* IndexError, caught at line 233
                   rejected("error", TRUE, Len(results))
              ELSE LET main_chunk == Subscript(results, result_idx)
                       run == Traverse(
                                  [k \in 1..Len(session.faiss_indexes) |->
                                      Docstore(session.faiss_indexes[k])],
                                  <<main_chunk.chunk_id>>, {}, <<>>, MaxTurns)
                   IN  [pc |-> "sending", result_idx |-> result_idx,
                        pressed |-> press.hit, passed |-> TRUE,
                        n_results |-> Len(results), opened |-> main_chunk,
                        assembled |-> TRUE,
                        full_content |->
                            JoinedContent(SortedByChunkId(run.chunks)),
                        reply |-> "header"]]
    /\ UNCHANGED <<user_sessions, cat_task, qry_task, buttons, is_e5_model,
                   rank, asm, seg>>

(* handle_result_selection, lines 230-231: the parts have been sent. *)
handle_result_selection_sent(u) ==
    /\ sel_task[u].pc = "sending"
    /\ sel_task' = [sel_task EXCEPT ![u] =
          [@ EXCEPT !.pc = "done", !.reply = "shown"]]
    /\ UNCHANGED <<user_sessions, cat_task, qry_task, buttons, started,
                   is_e5_model, rank, asm, seg>>

----------------------------------------------------------------------------
(* send_long_message, lines 292-324 *)

\* The header literal of line 304, one element per character: an open-book
\* emoji, a space, the five Cyrillic letters of the word for "part", a space,
\* "X/X" and two newlines.
HeaderTemplate ==
    <<"BOOK", " ", "CHE", "A", "ES", "TE", "SOFT", " ", "X", "/", "X",
      "\n", "\n">>

\* The chunk length above which a break is looked for, line 314.
MinBreakLen == 100

RECURSIVE Digits(_)
\* str(n) for n >= 0, one element per digit.
Digits(n) ==
    IF n < 10 THEN <<n>> ELSE Append(Digits(n \div 10), n % 10)

\* The header of line 323: the same literal with i and total in the place of
\* the two X, or "" when there is one part.
Header(i, total) ==
    IF total > 1
    THEN <<"BOOK", " ", "CHE", "A", "ES", "TE", "SOFT", " ">>
             \o Digits(i) \o <<"/">>
             \o Digits(total) \o <<"\n", "\n">>
    ELSE <<>>

\* s[:n] with Python's rule for a negative n.
Prefix(s, n) ==
    IF n >= 0 THEN SubSeq(s, 1, Min(n, Len(s)))
    ELSE SubSeq(s, 1, Max(Len(s) + n, 0))

\* s.rfind(c) for a one-character c: the 0-based place of the last c, or -1.
RFind(s, c) ==
    LET at == {k \in 1..Len(s) : s[k] = c}
    IN  IF at = {} THEN -1
        ELSE (CHOOSE k \in at : \A m \in at : m <= k) - 1

\* s.rfind('. ')
RFindPeriodSpace(s) ==
    LET at == {k \in 1..(Len(s) - 1) : s[k] = "." /\ s[k + 1] = " "}
    IN  IF at = {} THEN -1
        ELSE (CHOOSE k \in at : \A m \in at : m <= k) - 1

\* last_break, lines 308-312
LastBreak(chunk) ==
    Max(Max(RFind(chunk, "\n"), RFind(chunk, " ")), RFindPeriodSpace(chunk))

\* available_size, line 304
AvailableSize(max_length, parts) ==
    max_length - (IF parts # <<>> THEN Len(HeaderTemplate) ELSE 0)

\* The chunk appended in one turn of the loop, lines 305-315.
NextChunk(text, available_size) ==
    LET chunk == Prefix(text, available_size)
        last_break == LastBreak(chunk)
    IN  IF last_break # -1 /\ Len(chunk) > MinBreakLen
        THEN Prefix(chunk, last_break + 1)
        ELSE chunk

RestSkippingOne(text, chunk) == SubSeq(text, Len(chunk) + 2, Len(text))

\* text[len(chunk):], line 318
Rest(text, chunk) == SubSeq(text, Len(chunk) + 1, Len(text))

RECURSIVE SplitLoop(_, _, _)
\* The while loop of lines 302-318.  Once parts is not empty the available
\* size no longer changes, so a turn that appends an empty chunk is repeated
\* for ever: the loop is then reported as not terminated.
SplitLoop(text, max_length, parts) ==
    IF text = <<>> THEN [terminated |-> TRUE, parts |-> parts]
    ELSE LET chunk == NextChunk(text, AvailableSize(max_length, parts))
         IN  IF chunk = <<>> /\ parts # <<>>
             THEN [terminated |-> FALSE, parts |-> parts]
             ELSE SplitLoop(Rest(text, chunk), max_length,
                            Append(parts, chunk))

\* The messages of lines 321-324.
Messages(parts) ==
    [i \in 1..Len(parts) |-> Header(i, Len(parts)) \o parts[i]]

IdleSeg ==
    [pc |-> "idle", text |-> <<>>, max_length |-> 0, terminated |-> FALSE,
     parts |-> <<>>, sent |-> <<>>]

\* One call of send_long_message.
send_long_message ==
    /\ seg.pc = "called"
    /\ LET run == SplitLoop(seg.text, seg.max_length, <<>>)
       IN  seg' = [seg EXCEPT
                     !.pc = "done",
                     !.terminated = run.terminated,
                     !.parts = run.parts,
                     !.sent = IF run.terminated THEN Messages(run.parts)
                              ELSE <<>>]
    /\ UNCHANGED <<user_sessions, cat_task, qry_task, sel_task, buttons,
                   started, is_e5_model, rank, asm>>

\* The input texts: up to MaxBlocks blocks, each a run of letters followed by
\* nothing, a space, a newline or a period and a space.
RunLens == {1, 98, 101}

Breaks == {<<>>, <<" ">>, <<"\n">>, <<".", " ">>}

Blocks == {[k \in 1..n |-> "a"] \o b : n \in RunLens, b \in Breaks}

RECURSIVE Flatten(_)
Flatten(ss) == IF ss = <<>> THEN <<>> ELSE Head(ss) \o Flatten(Tail(ss))

Texts == {Flatten(bs) : bs \in SeqsUpTo(Blocks, MaxBlocks)}

\* The values of max_length: 3000 is the one handle_result_selection passes
\* (line 230).
MaxLengths == {10, 30, 110, 3000}

----------------------------------------------------------------------------
(* Specifications *)

Init ==
    /\ user_sessions = [u \in Users |-> NoSession]
    /\ cat_task = [u \in Users |-> IdleCat]
    /\ qry_task = [u \in Users |-> IdleQry]
    /\ sel_task = [u \in Users |-> IdleSel]
    /\ buttons = [u \in Users |-> {}]
    /\ started = 0
    /\ is_e5_model \in BOOLEAN
    /\ rank = IdleRank
    /\ asm = IdleAsm
    /\ seg = IdleSeg

Next ==
    \/ \E u \in Users, c \in Categories : handle_category_start(u, c)
    \/ \E u \in Users : handle_category_load(u)
    \/ \E u \in Users : handle_category_finish(u)
    \/ \E u \in Users : handle_query_start(u)
    \/ \E u \in Users : handle_query_results(u)
    \/ \E u \in Users : handle_query_error(u)
    \/ \E u \in Users : handle_result_selection(u)
    \/ \E u \in Users : handle_result_selection_sent(u)

\* The session machine: two users, their category, query and result
\* selection handlers, up to MaxOps handler invocations.
Spec == Init /\ [][Next]_vars

SessionsIdle ==
    /\ user_sessions = [u \in Users |-> NoSession]
    /\ cat_task = [u \in Users |-> IdleCat]
    /\ qry_task = [u \in Users |-> IdleQry]
    /\ sel_task = [u \in Users |-> IdleSel]
    /\ buttons = [u \in Users |-> {}]
    /\ started = 0
    /\ is_e5_model = FALSE

InitRank ==
    /\ SessionsIdle
    /\ rank \in {[pc |-> "searched", raw_results |-> raw, last_results |-> <<>>] :
                    raw \in SeqsUpTo(Hits, MaxRaw)}
    /\ asm = IdleAsm
    /\ seg = IdleSeg

NextRank == rank_results

\* The ranking of handle_query on every list of raw hits up to MaxRaw.
SpecRank == InitRank /\ [][NextRank]_vars

InitAsm ==
    /\ SessionsIdle
    /\ rank = IdleRank
    /\ \E n \in 0..MaxDocs :
          \E pool \in [1..n -> DocShapes] :
             \E cut \in 0..n :
                \E seed \in ChunkIds :
                   asm = [pc |-> "called",
                          faiss_indexes |-> IndexesOf(pool, cut),
                          main_chunk |-> seed, terminated |-> FALSE,
                          chunks |-> <<>>, full_content |-> <<>>]
    /\ seg = IdleSeg

NextAsm == assemble_full_content

\* assemble_full_content on every pair of indexes holding up to MaxDocs
\* documents, from every seed.
SpecAsm == InitAsm /\ [][NextAsm]_vars

InitSeg ==
    /\ SessionsIdle
    /\ rank = IdleRank
    /\ asm = IdleAsm
    /\ seg \in {[pc |-> "called", text |-> text, max_length |-> max_length,
                 terminated |-> FALSE, parts |-> <<>>, sent |-> <<>>] :
                    text \in Texts, max_length \in MaxLengths}

NextSeg == send_long_message

\* send_long_message on every text of Texts and every limit of MaxLengths.
SpecSeg == InitSeg /\ [][NextSeg]_vars

\* The ways to store two copies of one chunk, the first in the first index
\* and the second in the second, together with one other document: the pool
\* and the number of its documents that the first index holds.
CopyLayouts(first, second, other) ==
    { <<<<other, first, second>>, 2>>, <<<<first, other, second>>, 2>>,
      <<<<first, other, second>>, 1>>, <<<<first, second, other>>, 1>> }

InitCopies ==
    /\ SessionsIdle
    /\ rank = IdleRank
    /\ \E id \in ChunkIds, l1 \in LinkLists, l2 \in LinkLists :
          \E other \in DocShapes, seed \in ChunkIds :
             \E layout \in CopyLayouts([chunk_id |-> id, linked |-> l1],
                                       [chunk_id |-> id, linked |-> l2],
                                       other) :
                asm = [pc |-> "called",
                       faiss_indexes |-> IndexesOf(layout[1], layout[2]),
                       main_chunk |-> seed, terminated |-> FALSE,
                       chunks |-> <<>>, full_content |-> <<>>]
    /\ seg = IdleSeg

\* assemble_full_content on two indexes that both store one chunk id, with
\* any links in either copy, and one more document.
SpecCopies == InitCopies /\ [][NextAsm]_vars

----------------------------------------------------------------------------
(* Properties of the session machine *)

\* C1: a search is run only for a session that has loaded indexes; in every
\* other situation (no session, category still loading, category not found,
\* nothing loaded) the query is rejected and no search is issued.
C1_SearchOnlyWhenReady ==
    \A u \in Users :
        qry_task[u].pc = "searching" => Len(qry_task[u].indexes) > 0

\* The selection of an existing category has come to its end with every load
\* done and no index handle loaded.
EndedWithNothingLoaded(u) ==
    /\ cat_task[u].pc = "done"
    /\ CategoryExists(cat_task[u].category)
    /\ cat_task[u].idx = Len(faiss_paths(cat_task[u].category))
    /\ cat_task[u].faiss_indexes = <<>>

\* C2: a category selection that ends with no index handle loaded never
\* answers "ready to search" and does not leave a session that accepts
\* queries.
C2_NothingLoadedIsNotReady ==
    \A u \in Users :
        EndedWithNothingLoaded(u) =>
            /\ cat_task[u].reply # "ready"
            /\ ~AcceptsQueries(u)

\* The selection handler of u has gone through its checks with a request
\* that names no hit of the list it read: no session, no last_results, or
\* an index outside 0 .. len(last_results) - 1.
SelectionOutOfBounds(u) ==
    /\ sel_task[u].pc # "idle"
    /\ \/ ~sel_task[u].passed
       \/ sel_task[u].result_idx \notin 0..(sel_task[u].n_results - 1)

\* C11: a result selection made with no session, with no or an empty
\* last_results, or with an index outside 0 .. len(last_results) - 1 ends
\* with an error reply, runs no reconstruction and sends no document part.
C11_BadSelectionIsRejected ==
    \A u \in Users :
        SelectionOutOfBounds(u) =>
            /\ sel_task[u].reply \in {"stale", "not_found", "error"}
            /\ ~sel_task[u].assembled
            /\ sel_task[u].pc # "sending"

\* C12: a selection made with a button of an earlier result list, after a
\* newer query has replaced last_results, never opens a hit of the newer
\* list: whatever a button press opens is the hit the button was sent for.
C12_OpensOnlyThePressedHit ==
    \A u \in Users :
        (sel_task[u].assembled /\ sel_task[u].result_idx >= 0) =>
            sel_task[u].opened = sel_task[u].pressed

\* The handlers of u that stand at an await with work left to do.
InFlight(u) ==
    (IF cat_task[u].pc = "loading" THEN {"handle_category"} ELSE {})
        \cup (IF qry_task[u].pc = "searching" THEN {"handle_query"} ELSE {})
        \cup (IF sel_task[u].pc = "sending"
              THEN {"handle_result_selection"} ELSE {})

\* C13: the operations of one user are processed one after the other; no
\* handler of a user starts while another handler of that user is waiting
\* at an await.
C13_OneHandlerPerUser ==
    \A u \in Users : Cardinality(InFlight(u)) <= 1

\* Any step of a handler of u.
UserStep(u) ==
    \/ \E c \in Categories : handle_category_start(u, c)
    \/ handle_category_load(u)
    \/ handle_category_finish(u)
    \/ handle_query_start(u)
    \/ handle_query_results(u)
    \/ handle_query_error(u)
    \/ handle_result_selection(u)
    \/ handle_result_selection_sent(u)

\* C14: a step of a handler run for user a leaves the session entry of
\* every other user b as it was.
C14_OtherSessionsUntouched ==
    [][\A a \in Users :
          UserStep(a) =>
              \A b \in Users \ {a} : user_sessions'[b] = user_sessions[b]]_vars

\* Both users have selected a category and run a query, and their sessions
\* hold different result lists, the second user's not empty.
C14_Witness ==
    /\ \A u \in Users :
          /\ qry_task[u].pc = "done"
          /\ qry_task[u].reply = "results"
          /\ user_sessions[u].has_last_results
    /\ user_sessions["u1"].last_results # user_sessions["u2"].last_results
    /\ user_sessions["u2"].last_results # <<>>

\* C19: every hit in a user's last_results was returned by a search over
\* the indexes the same session holds now.
C19_ResultsComeFromSessionIndexes ==
    \A u \in Users :
        \A k \in 1..Len(user_sessions[u].last_results) :
            \E i \in Range(user_sessions[u].faiss_indexes) :
                user_sessions[u].last_results[k] = IndexHit(i)

----------------------------------------------------------------------------
(* Properties of the ranking *)

Count(s, x) == Cardinality({k \in 1..Len(s) : s[k] = x})

\* C9: last_results is sorted by descending score, holds the
\* min(3, len(raw)) highest-scoring raw hits, each an unchanged hit of the
\* input, and is empty for an empty input.
C9_TopThreeByScore ==
    rank.pc = "done" =>
        LET raw == rank.raw_results
            kept == rank.last_results
        IN  /\ \A i, j \in 1..Len(kept) :
                   i < j => kept[i].score >= kept[j].score
            /\ Len(kept) <= TopN
            /\ Len(kept) = Min(TopN, Len(raw))
            /\ \A x \in Range(kept) : Count(kept, x) <= Count(raw, x)
            /\ \A x \in Range(raw) :
                   Count(kept, x) < Count(raw, x) =>
                       \A k \in 1..Len(kept) : x.score <= kept[k].score
            /\ (raw = <<>> => kept = <<>>)

\* Four raw hits, the lowest-scoring one first and the others higher, have
\* been ranked.
C9_Witness ==
    /\ rank.pc = "done"
    /\ Len(rank.raw_results) = 4
    /\ \A k \in 2..4 : rank.raw_results[1].score < rank.raw_results[k].score
    /\ Len(rank.last_results) = 3

\* C10: last_results never holds two hits with the same chunk_id.
C10_NoDuplicateChunkId ==
    rank.pc = "done" =>
        \A i, j \in 1..Len(rank.last_results) :
            i # j =>
                rank.last_results[i].chunk_id # rank.last_results[j].chunk_id

----------------------------------------------------------------------------
(* Properties of the traversal *)

\* Every document of the indexes.
AllDocs(faiss_indexes) ==
    UNION {Range(faiss_indexes[i]) : i \in 1..Len(faiss_indexes)}

PresentIds(faiss_indexes) == {d.chunk_id : d \in AllDocs(faiss_indexes)}

\* The copy of a present chunk that comes first in index order and docstore
\* order (the content of a document is its place in that order).
FirstCopy(faiss_indexes, id) ==
    CHOOSE d \in AllDocs(faiss_indexes) :
        /\ d.chunk_id = id
        /\ \A e \in AllDocs(faiss_indexes) :
               e.chunk_id = id => d.page_content <= e.page_content

RECURSIVE ClosedUnderLinks(_, _)
\* The least set of present ids that contains S and every present id linked
\* from a chunk of the set.
ClosedUnderLinks(faiss_indexes, S) ==
    LET more == {id \in PresentIds(faiss_indexes) :
                    \E from \in S :
                        id \in Range(FirstCopy(faiss_indexes, from).linked)}
    IN  IF more \subseteq S THEN S
        ELSE ClosedUnderLinks(faiss_indexes, S \cup more)

ReachableIds(faiss_indexes, seed) ==
    IF seed \in PresentIds(faiss_indexes)
    THEN ClosedUnderLinks(faiss_indexes, {seed})
    ELSE {}

CollectedIds == {asm.chunks[k].chunk_id : k \in 1..Len(asm.chunks)}

\* C6: the traversal terminates and no chunk id appears twice in the
\* collected document; every reachable chunk appears exactly once.
C6_TerminatesEachChunkOnce ==
    asm.pc = "done" =>
        /\ asm.terminated
        /\ \A i, j \in 1..Len(asm.chunks) :
               i # j => asm.chunks[i].chunk_id # asm.chunks[j].chunk_id
        /\ \A id \in ReachableIds(asm.faiss_indexes, asm.main_chunk) :
               Cardinality({k \in 1..Len(asm.chunks) :
                               asm.chunks[k].chunk_id = id}) = 1

\* A traversal over a malformed graph has ended: the seed links to a second
\* chunk, twice or together with itself, and that chunk links back.
C6_Witness ==
    /\ asm.pc = "done"
    /\ Len(asm.chunks) = 2
    /\ \E a, b \in 1..2 :
          /\ a # b
          /\ asm.chunks[a].chunk_id = asm.main_chunk
          /\ Len(asm.chunks[a].linked) = 2
          /\ asm.chunks[b].chunk_id \in Range(asm.chunks[a].linked)
          /\ Range(asm.chunks[a].linked) \subseteq
                 {asm.chunks[a].chunk_id, asm.chunks[b].chunk_id}
          /\ asm.main_chunk \in Range(asm.chunks[b].linked)

\* C7: the collected chunks are exactly the present chunks reachable from
\* the seed through the links of present chunks; a link to an id in no index
\* is dropped and does not keep the other links of the chunk from being
\* followed.
C7_CollectsExactlyReachable ==
    asm.pc = "done" =>
        CollectedIds = ReachableIds(asm.faiss_indexes, asm.main_chunk)

\* The seed chunk links first to an id that is in no index and then to a
\* present chunk, and both present chunks have been collected.
C7_Witness ==
    /\ asm.pc = "done"
    /\ Len(asm.chunks) = 2
    /\ \E a, b \in 1..2 :
          /\ a # b
          /\ asm.chunks[a].chunk_id = asm.main_chunk
          /\ Len(asm.chunks[a].linked) = 2
          /\ asm.chunks[a].linked[1] \notin PresentIds(asm.faiss_indexes)
          /\ asm.chunks[a].linked[2] = asm.chunks[b].chunk_id

\* C8: the collected chunks are listed in ascending chunk_id order, and the
\* text is their contents in that order.
C8_AscendingChunkIdOrder ==
    asm.pc = "done" =>
        /\ \A i, j \in 1..Len(asm.chunks) :
               i < j =>
                   ~StrLess(asm.chunks[j].chunk_id, asm.chunks[i].chunk_id)
        /\ Len(asm.full_content) = Len(asm.chunks)
        /\ \A k \in 1..Len(asm.chunks) :
               asm.full_content[k] = asm.chunks[k].page_content

\* The traversal started from the chunk with the greater id, stored in the
\* second index, and found the chunk "10" after the chunk "2".
C8_Witness ==
    /\ asm.pc = "done"
    /\ Len(asm.chunks) = 2
    /\ asm.main_chunk = <<2>>
    /\ asm.chunks[1].chunk_id = <<1, 0>>
    /\ asm.chunks[2].chunk_id = <<2>>
    /\ asm.chunks[2].page_content > asm.chunks[1].page_content

\* C18: a chunk id stored in more than one index is taken from the first
\* index that holds it, and only the links of that copy are followed: every
\* collected chunk is the first copy of its id, and every collected chunk
\* but the seed is linked from the first copy of a collected chunk.
C18_FirstCopyDecides ==
    asm.pc = "done" =>
        \A k \in 1..Len(asm.chunks) :
            LET chunk == asm.chunks[k]
            IN  /\ [chunk_id |-> chunk.chunk_id, linked |-> chunk.linked,
                    page_content |-> chunk.page_content]
                       = FirstCopy(asm.faiss_indexes, chunk.chunk_id)
                /\ chunk.chunk_id # asm.main_chunk =>
                       \E j \in 1..Len(asm.chunks) :
                           chunk.chunk_id \in Range(
                               FirstCopy(asm.faiss_indexes,
                                         asm.chunks[j].chunk_id).linked)

\* The seed is stored in both indexes; only its second copy links to the
\* third, present chunk, and that chunk was not collected.
C18_Witness ==
    /\ asm.pc = "done"
    /\ Len(asm.chunks) = 1
    /\ asm.chunks[1].chunk_id = asm.main_chunk
    /\ \E d \in Range(asm.faiss_indexes[2]) :
          /\ d.chunk_id = asm.main_chunk
          /\ d.page_content # asm.chunks[1].page_content
          /\ \E e \in AllDocs(asm.faiss_indexes) :
                /\ e.chunk_id # asm.main_chunk
                /\ e.chunk_id \in Range(d.linked)
                /\ e.chunk_id \notin Range(asm.chunks[1].linked)

----------------------------------------------------------------------------
(* Properties of the splitting *)

\* C3: every message sent, the part with its header, is at most max_length
\* long, the first part and the parts of a ten-part output included.
C3_MessagesWithinLimit ==
    (seg.pc = "done" /\ seg.terminated) =>
        \A i \in 1..Len(seg.sent) : Len(seg.sent[i]) <= seg.max_length

\* The message i without its header.
Body(i) ==
    SubSeq(seg.sent[i], Len(Header(i, Len(seg.sent))) + 1, Len(seg.sent[i]))

\* C4: the parts, and the messages without their headers, concatenated in
\* order are the input text.
C4_PartsRebuildText ==
    (seg.pc = "done" /\ seg.terminated) =>
        /\ Flatten(seg.parts) = seg.text
        /\ Len(seg.sent) = Len(seg.parts)
        /\ Flatten([i \in 1..Len(seg.sent) |-> Body(i)]) = seg.text

\* A text was cut at a break into three or more parts, the first of them
\* ending with the break character.
C4_Witness ==
    /\ seg.pc = "done"
    /\ seg.terminated
    /\ Len(seg.parts) >= 3
    /\ Len(seg.parts[1]) < seg.max_length
    /\ Last(seg.parts[1]) \in {" ", "\n"}

\* C5: a non-empty text shorter than max_length less the header reserve is
\* sent as one part equal to the text.
C5_ShortTextIsOnePart ==
    (/\ seg.pc = "done"
     /\ seg.text # <<>>
     /\ Len(seg.text) < seg.max_length - Len(HeaderTemplate)) =>
        /\ seg.terminated
        /\ seg.parts = <<seg.text>>

\* C15: the splitting loop ends for every text and every positive limit, and
\* an empty text gives no part and no message.
C15_SplitLoopTerminates ==
    (seg.pc = "done" /\ seg.max_length > 0) =>
        /\ seg.terminated
        /\ (seg.text = <<>> => (seg.parts = <<>> /\ seg.sent = <<>>))

\* The prefix the first part is cut from.
FirstPrefix == Prefix(seg.text, seg.max_length)

\* The first part was cut at a break of its prefix, short of the hard
\* boundary.
FirstPartCutAtBreak ==
    /\ seg.pc = "done"
    /\ seg.terminated
    /\ Len(FirstPrefix) > MinBreakLen
    /\ LastBreak(FirstPrefix) # -1
    /\ seg.parts[1] # FirstPrefix

\* C16: a cut at a break goes to the last newline of the prefix if it has
\* one, otherwise to the last period-space (the part ends with the period or
\* with its space), otherwise to the last space; a later space does not
\* override an earlier newline.
C16_BreakKindsInOrder ==
    FirstPartCutAtBreak =>
        IF RFind(FirstPrefix, "\n") # -1
        THEN seg.parts[1] = Prefix(FirstPrefix, RFind(FirstPrefix, "\n") + 1)
        ELSE IF RFindPeriodSpace(FirstPrefix) # -1
        THEN seg.parts[1] \in
                 {Prefix(FirstPrefix, RFindPeriodSpace(FirstPrefix) + 1),
                  Prefix(FirstPrefix, RFindPeriodSpace(FirstPrefix) + 2)}
        ELSE seg.parts[1] = Prefix(FirstPrefix, RFind(FirstPrefix, " ") + 1)

\* The text still to be split when part k is cut, and the prefix part k is
\* cut from.
TextBefore(k) ==
    SubSeq(seg.text, Len(Flatten(SubSeq(seg.parts, 1, k - 1))) + 1,
           Len(seg.text))

PrefixOf(k) ==
    Prefix(TextBefore(k),
           AvailableSize(seg.max_length, SubSeq(seg.parts, 1, k - 1)))

\* C17: a part that was cut at a break, that is short of its prefix, is not
\* shorter than the minimum chunk length of 100 characters.
C17_NoTinyBreakCut ==
    (seg.pc = "done" /\ seg.terminated) =>
        \A k \in 1..Len(seg.parts) :
            seg.parts[k] # PrefixOf(k) => Len(seg.parts[k]) >= MinBreakLen

====
